---- MODULE Spec2Model ----
(***************************************************************************)
(* Model of app.py: the quiz generator (generate_quizzes) and the Flask    *)
(* session handlers start, quiz, answer and result.                        *)
(*                                                                         *)
(* Python values are records carrying their Python type name in `type`.    *)
(* The Flask session is a record of its five values together with the set  *)
(* `keys` of the keys that are present, so that session.get(key, default)  *)
(* and session[key] differ exactly where they differ in Python.            *)
(***************************************************************************)
EXTENDS Integers, Sequences, FiniteSets, TLC

\* ------------------------------------------------------------------ bounds
\* longest `questions` list of a response in the generator specification
GenMaxLen == 3
\* largest `count` argument tried in the generator specification
MaxCount == 2
\* longest `questions` list of a response to /start
SessMaxLen == 6
\* how far past the end of the quiz /answer is still submitted
MaxStale == 2

\* ------------------------------------------------------- program constants
\* def generate_quizzes(category, count=5)
DefaultCount == 5
\* len(quiz['options']) == 4 and 0 <= quiz['correct_answer_index'] < 4
NumOptions == 4

\* request.form.get('category', '地理') / session.get('category', '地理')
DefaultCategory == "chiri"

\* ------------------------------------------------------------ Python values
\* Every value a handler passes around has the same four fields: `keys` and
\* `questions` describe a dict, `exc` names a raised exception.
None == [type |-> "NoneType", keys |-> {}, questions |-> <<>>, exc |-> "none"]

\* {'questions': questions}
PyDict(questions) ==
    [type |-> "dict", keys |-> {"questions"}, questions |-> questions, exc |-> "none"]

\* {}
EmptyDict == [type |-> "dict", keys |-> {}, questions |-> <<>>, exc |-> "none"]

\* an exception travelling up the stack
Raised(exc) == [type |-> "raise", keys |-> {}, questions |-> <<>>, exc |-> exc]

IsRaised(v) == v.type = "raise"

\* the keys line 61 looks for
QuizKeys == {"question", "options", "correct_answer_index"}

\* The value of `x in quiz` for the three keys is kept in `has`: the keys of
\* a dict, the substrings of a str, the members of a list.
Elem(type, has, options, index) ==
    [type |-> type, has |-> has, options |-> options, index |-> index]

PyList(len) == [type |-> "list", len |-> len]
PyStr == [type |-> "str", len |-> 0]
PyInt(n) == [type |-> "int", val |-> n]
\* True == 1 and False == 0, and bool is a subclass of int
PyBool(b) == [type |-> "bool", val |-> IF b THEN 1 ELSE 0]
\* n.0
PyFloat(n) == [type |-> "float", val |-> n]

\* {"question": ..., "options": [4 texts], "correct_answer_index": c}
Q(c) == Elem("dict", QuizKeys, PyList(NumOptions), PyInt(c))
QBool(b) == Elem("dict", QuizKeys, PyList(NumOptions), PyBool(b))
QFloat(n) == Elem("dict", QuizKeys, PyList(NumOptions), PyFloat(n))
QOptions(n, c) == Elem("dict", QuizKeys, PyList(n), PyInt(c))
QOptionsText(c) == Elem("dict", QuizKeys, PyStr, PyInt(c))
QMissing(key, c) == Elem("dict", QuizKeys \ {key}, PyList(NumOptions), PyInt(c))
\* "correct_answer_index": "1" and "correct_answer_index": null
QIndexText == Elem("dict", QuizKeys, PyList(NumOptions), [type |-> "str", val |-> 1])
QIndexNull == Elem("dict", QuizKeys, PyList(NumOptions), [type |-> "NoneType", val |-> 0])
\* elements of `questions` that are not JSON objects
ENumber == Elem("int", {}, PyStr, PyInt(0))
ENull == Elem("NoneType", {}, PyStr, PyInt(0))
EText(has) == Elem("str", has, PyStr, PyInt(0))
EList(has) == Elem("list", has, PyStr, PyInt(0))

\* --------------------------------------------------- outcomes of the API call
\* client.chat.completions.create raises
ApiRaises == [kind |-> "raise", top |-> "none", hasQuestions |-> FALSE,
              qtype |-> "none", questions |-> <<>>]
\* message.content is text that json.loads rejects
ApiGarbage == [kind |-> "garbage", top |-> "none", hasQuestions |-> FALSE,
               qtype |-> "none", questions |-> <<>>]
\* message.content is None
ApiNoContent == [kind |-> "nocontent", top |-> "none", hasQuestions |-> FALSE,
                 qtype |-> "none", questions |-> <<>>]
\* message.content is JSON whose top level is not an object
ApiJsonTop(type) == [kind |-> "json", top |-> type, hasQuestions |-> FALSE,
                     qtype |-> "none", questions |-> <<>>]
\* message.content is a JSON object without the key "questions"
ApiJsonNoKey == [kind |-> "json", top |-> "dict", hasQuestions |-> FALSE,
                 qtype |-> "none", questions |-> <<>>]
\* {"questions": <something that is not an array>}
ApiJsonQuestionsOf(type) == [kind |-> "json", top |-> "dict", hasQuestions |-> TRUE,
                             qtype |-> type, questions |-> <<>>]
\* {"questions": [...]}
ApiJson(questions) == [kind |-> "json", top |-> "dict", hasQuestions |-> TRUE,
                       qtype |-> "list", questions |-> questions]

\* -------------------------------------------------------- generate_quizzes
\* the request of lines 36-43
ChatRequest(category, count) ==
    [model |-> "gpt-3.5-turbo", category |-> category, count |-> count,
     response_format |-> "json_object"]

\* lines 46-47: json.loads(response.choices[0].message.content); `qtype` is
\* the Python type of the value under 'questions'
json_loads(outcome) ==
    LET exc == CASE outcome.kind = "garbage" -> "JSONDecodeError"
                 [] outcome.kind = "nocontent" -> "TypeError"
                 [] OTHER -> "none"
    IN  [type |-> IF exc = "none" THEN outcome.top ELSE "raise",
         keys |-> IF outcome.hasQuestions THEN {"questions"} ELSE {},
         questions |-> outcome.questions,
         exc |-> exc,
         qtype |-> outcome.qtype]

\* the condition of lines 61-63 on one element: "append", "drop", or the
\* exception its evaluation raises
quiz_check(quiz) ==
    IF quiz.type \notin {"dict", "str", "list"}
    THEN "TypeError"                     \* 'question' in 7: not iterable
    ELSE IF ~ (QuizKeys \subseteq quiz.has)
    THEN "drop"
    ELSE IF quiz.type # "dict"
    THEN "TypeError"                     \* "..."['options'], [...]['options']
    ELSE IF /\ quiz.options.type = "list"
            /\ quiz.options.len = NumOptions
            /\ quiz.index.type \in {"int", "bool"}   \* isinstance(True, int)
            /\ 0 <= quiz.index.val
            /\ quiz.index.val < NumOptions
    THEN "append"
    ELSE "drop"

\* the loop of lines 59-64: the list valid_quizzes, or the exception that
\* the first offending element raises
RECURSIVE valid_quizzes(_)
valid_quizzes(questions) ==
    IF questions = <<>> THEN [exc |-> "none", list |-> <<>>]
    ELSE LET c == quiz_check(Head(questions))
             rest == valid_quizzes(Tail(questions))
         IN  IF c = "TypeError" THEN [exc |-> "TypeError", list |-> <<>>]
             ELSE IF c = "drop" \/ rest.exc # "none" THEN rest
             ELSE [exc |-> "none", list |-> <<Head(questions)>> \o rest.list]

\* the mutant of generate_try without the check of line 67
generate_try_NoFinalCheck(count, outcome) ==
    IF outcome.kind = "raise" THEN Raised("APIError")
    ELSE LET quizzes == json_loads(outcome) IN
         IF IsRaised(quizzes) THEN Raised(quizzes.exc)
         ELSE IF quizzes.type # "dict" \/ "questions" \notin quizzes.keys THEN None
         ELSE IF quizzes.qtype # "list" \/ Len(quizzes.questions) < count THEN None
         ELSE LET valid == valid_quizzes(quizzes.questions) IN
              IF valid.exc # "none" THEN Raised(valid.exc)
              ELSE PyDict(valid.list)

\* lines 36-70, the body of the try block: the value returned or the
\* exception raised
generate_try(count, outcome) ==
    IF outcome.kind = "raise" THEN Raised("APIError")
    ELSE LET quizzes == json_loads(outcome) IN
         IF IsRaised(quizzes) THEN Raised(quizzes.exc)
         ELSE IF quizzes.type # "dict" \/ "questions" \notin quizzes.keys THEN None
         ELSE IF quizzes.qtype # "list" \/ Len(quizzes.questions) < count THEN None
         ELSE LET valid == valid_quizzes(quizzes.questions) IN
              IF valid.exc # "none" THEN Raised(valid.exc)
              ELSE IF Len(valid.list) < count THEN None
              ELSE PyDict(valid.list)

\* the mutant of generate_quizzes without the except clause
generate_quizzes_NoExcept(category, count, outcome) ==
    [value |-> generate_try(count, outcome),
     sent  |-> <<ChatRequest(category, count)>>]

\* lines 16-74: the value returned (or the exception that escapes) and the
\* requests sent to the API
generate_quizzes(category, count, outcome) ==
    LET r == generate_try(count, outcome) IN
    [value |-> IF IsRaised(r) THEN None ELSE r,
     sent  |-> <<ChatRequest(category, count)>>]

\* ------------------------------------------------------------ Flask session
SessionKeys == {"quizzes", "current_question", "score", "category", "total_questions"}

\* the session of a client that has not been given a quiz; a key that is not
\* in `keys` is absent, and its field then holds a fixed filler
EmptySession ==
    [keys |-> {}, quizzes |-> EmptyDict, current_question |-> 0, score |-> 0,
     category |-> DefaultCategory, total_questions |-> 0]

\* session.get(key, default)
Get(s, key, default) == IF key \in s.keys THEN s[key] ELSE default

\* session[key] = value
Put(s, key, value) == [s EXCEPT ![key] = value, !.keys = @ \cup {key}]

\* ------------------------------------------------------------ request forms
\* a form field: absent, or present with a text; `numeric` tells whether
\* int() accepts the text, and `val` is then the integer it denotes
NoField == [present |-> FALSE, text |-> "", numeric |-> FALSE, val |-> 0]
TextField(text) == [present |-> TRUE, text |-> text, numeric |-> FALSE, val |-> 0]
NumberField(n) == [present |-> TRUE, text |-> "digits", numeric |-> TRUE, val |-> n]

\* int(request.form.get('option', 0)): the integer, or ValueError
selected_option(field) ==
    IF ~ field.present THEN [exc |-> "none", val |-> 0]
    ELSE IF field.numeric THEN [exc |-> "none", val |-> field.val]
    ELSE [exc |-> "ValueError", val |-> 0]

\* request.form.get('category', '地理')
form_category(field) == IF field.present THEN field.text ELSE DefaultCategory

\* ---------------------------------------------------------------- responses
NoQuestion == Elem("none", {}, PyStr, PyInt(0))

\* What a handler answers: a redirect to a view, a rendered template with its
\* arguments, or the exception that escaped the handler. `indexed` is the set
\* of positions of quizzes['questions'] the handler read.
Response(handler, kind, target) ==
    [handler |-> handler, kind |-> kind, target |-> target,
     question |-> NoQuestion, question_number |-> 0, total |-> 0, score |-> 0,
     category |-> "", indexed |-> {}]

NoResponse == Response("none", "none", "none")
Redirect(handler, target) == Response(handler, "redirect", target)
Escaped(handler, exc) == Response(handler, "error", exc)

\* the result of running a handler
Handled(s, resp, sent) == [session |-> s, response |-> resp, sent |-> sent]

\* lines 76-79
index(s) == Handled(s, Response("index", "render", "index.html"), <<>>)

\* the mutant of start that generates a second time after a failure
start_Retry(s, field, outcome) ==
    LET category == form_category(field)
        g == generate_quizzes(category, DefaultCount, outcome)
        quizzes == g.value
    IN  IF IsRaised(quizzes) \/ quizzes = None
        THEN Handled(s, Redirect("start", "index"), g.sent \o g.sent)
        ELSE Handled(
               Put(Put(Put(Put(Put(s, "quizzes", quizzes), "current_question", 0),
                   "score", 0), "category", category),
                   "total_questions", Len(quizzes.questions)),
               Redirect("start", "quiz"), g.sent)

\* the mutant of start without line 94: the old score is kept
start_KeepScore(s, field, outcome) ==
    LET category == form_category(field)
        g == generate_quizzes(category, DefaultCount, outcome)
        quizzes == g.value
    IN  IF IsRaised(quizzes) \/ quizzes = None
        THEN Handled(s, Redirect("start", "index"), g.sent)
        ELSE Handled(
               Put(Put(Put(Put(s, "quizzes", quizzes), "current_question", 0),
                   "category", category),
                   "total_questions", Len(quizzes.questions)),
               Redirect("start", "quiz"), g.sent)

\* the mutant of start that stores the requested count as total_questions
start_TotalIsCount(s, field, outcome) ==
    LET category == form_category(field)
        g == generate_quizzes(category, DefaultCount, outcome)
        quizzes == g.value
    IN  IF IsRaised(quizzes) \/ quizzes = None
        THEN Handled(s, Redirect("start", "index"), g.sent)
        ELSE Handled(
               Put(Put(Put(Put(Put(s, "quizzes", quizzes), "current_question", 0),
                   "score", 0), "category", category),
                   "total_questions", DefaultCount),
               Redirect("start", "quiz"), g.sent)

\* the mutant of start that resets index and score before it generates
start_ResetFirst(s, field, outcome) ==
    LET category == form_category(field)
        g == generate_quizzes(category, DefaultCount, outcome)
        quizzes == g.value
        s0 == Put(Put(s, "current_question", 0), "score", 0)
    IN  IF IsRaised(quizzes) \/ quizzes = None
        THEN Handled(s0, Redirect("start", "index"), g.sent)
        ELSE Handled(
               Put(Put(Put(s0, "quizzes", quizzes), "category", category),
                   "total_questions", Len(quizzes.questions)),
               Redirect("start", "quiz"), g.sent)

\* lines 81-101
start(s, field, outcome) ==
    LET category == form_category(field)
        g == generate_quizzes(category, DefaultCount, outcome)
        quizzes == g.value
    IN  IF IsRaised(quizzes)                      \* except Exception, line 99
        THEN Handled(s, Redirect("start", "index"), g.sent)
        ELSE IF quizzes = None                    \* line 88
        THEN Handled(s, Redirect("start", "index"), g.sent)
        ELSE Handled(
               Put(Put(Put(Put(Put(s, "quizzes", quizzes), "current_question", 0),
                   "score", 0), "category", category),
                   "total_questions", Len(quizzes.questions)),
               Redirect("start", "quiz"), g.sent)

\* the mutant of quiz that tests current > len(...) at line 114
quiz_OffByOne(s) ==
    LET quizzes == Get(s, "quizzes", EmptyDict)
        current == Get(s, "current_question", 0)
    IN  IF "questions" \notin quizzes.keys \/ Len(quizzes.questions) = 0
        THEN Handled(s, Redirect("quiz", "result"), <<>>)
        ELSE IF current > Len(quizzes.questions)
        THEN Handled(s, Redirect("quiz", "result"), <<>>)
        ELSE IF current = Len(quizzes.questions)
        THEN Handled(s, [Escaped("quiz", "IndexError") EXCEPT !.indexed = {current}],
                     <<>>)
        ELSE Handled(s,
               [Response("quiz", "render", "quiz.html") EXCEPT
                  !.question = quizzes.questions[current + 1],
                  !.question_number = current + 1,
                  !.total = Len(quizzes.questions),
                  !.indexed = {current}],
               <<>>)

\* the mutant of quiz that writes the index it read back into the session
quiz_StoresCurrent(s) ==
    LET quizzes == Get(s, "quizzes", EmptyDict)
        current == Get(s, "current_question", 0)
        s1 == Put(s, "current_question", current)
    IN  IF "questions" \notin quizzes.keys \/ Len(quizzes.questions) = 0
        THEN Handled(s1, Redirect("quiz", "result"), <<>>)
        ELSE IF current >= Len(quizzes.questions)
        THEN Handled(s1, Redirect("quiz", "result"), <<>>)
        ELSE Handled(s1,
               [Response("quiz", "render", "quiz.html") EXCEPT
                  !.question = quizzes.questions[current + 1],
                  !.question_number = current + 1,
                  !.total = Len(quizzes.questions),
                  !.indexed = {current}],
               <<>>)

\* lines 103-124
quiz(s) ==
    LET quizzes == Get(s, "quizzes", EmptyDict)
        current == Get(s, "current_question", 0)
    IN  IF "questions" \notin quizzes.keys \/ Len(quizzes.questions) = 0
        THEN Handled(s, Redirect("quiz", "result"), <<>>)
        ELSE IF current >= Len(quizzes.questions)
        THEN Handled(s, Redirect("quiz", "result"), <<>>)
        ELSE Handled(s,
               [Response("quiz", "render", "quiz.html") EXCEPT
                  !.question = quizzes.questions[current + 1],
                  !.question_number = current + 1,
                  !.total = Len(quizzes.questions),
                  !.indexed = {current}],
               <<>>)

\* the mutant of answer that compares a stale answer with the last question
answer_ClampIndex(s, field) ==
    LET selected == selected_option(field)
        quizzes == Get(s, "quizzes", EmptyDict)
        current == Get(s, "current_question", 0)
    IN  IF selected.exc # "none"
        THEN Handled(s, Escaped("answer", selected.exc), <<>>)
        ELSE IF "questions" \notin quizzes.keys
        THEN Handled(s, Escaped("answer", "KeyError"), <<>>)
        ELSE LET last == Len(quizzes.questions) - 1
                 at == IF current < last THEN current ELSE last
                 correct == selected.val = quizzes.questions[at + 1].index.val
                 s1 == IF correct THEN Put(s, "score", Get(s, "score", 0) + 1) ELSE s
             IN  Handled(Put(s1, "current_question", current + 1),
                         [Redirect("answer", "quiz") EXCEPT !.indexed = {at}],
                         <<>>)

\* the mutant of answer that moves on only after a correct answer
answer_AdvanceIfCorrect(s, field) ==
    LET selected == selected_option(field)
        quizzes == Get(s, "quizzes", EmptyDict)
        current == Get(s, "current_question", 0)
    IN  IF selected.exc # "none"
        THEN Handled(s, Escaped("answer", selected.exc), <<>>)
        ELSE IF "questions" \notin quizzes.keys
        THEN Handled(s, Escaped("answer", "KeyError"), <<>>)
        ELSE LET inRange == current < Len(quizzes.questions)
                 correct == /\ inRange
                            /\ selected.val = quizzes.questions[current + 1].index.val
             IN  Handled(IF correct
                         THEN Put(Put(s, "score", Get(s, "score", 0) + 1),
                                  "current_question", current + 1)
                         ELSE s,
                         [Redirect("answer", "quiz") EXCEPT
                            !.indexed = IF inRange THEN {current} ELSE {}],
                         <<>>)

\* the mutant of answer that compares with the question after the current one
answer_CompareNext(s, field) ==
    LET selected == selected_option(field)
        quizzes == Get(s, "quizzes", EmptyDict)
        current == Get(s, "current_question", 0)
    IN  IF selected.exc # "none"
        THEN Handled(s, Escaped("answer", selected.exc), <<>>)
        ELSE IF "questions" \notin quizzes.keys
        THEN Handled(s, Escaped("answer", "KeyError"), <<>>)
        ELSE LET inRange == current + 1 < Len(quizzes.questions)
                 correct == /\ inRange
                            /\ selected.val = quizzes.questions[current + 2].index.val
                 s1 == IF correct THEN Put(s, "score", Get(s, "score", 0) + 1) ELSE s
             IN  Handled(Put(s1, "current_question", current + 1),
                         [Redirect("answer", "quiz") EXCEPT
                            !.indexed = IF inRange THEN {current + 1} ELSE {}],
                         <<>>)

\* the mutant of answer that compares without the bounds check of line 135
answer_NoBoundsCheck(s, field) ==
    LET selected == selected_option(field)
        quizzes == Get(s, "quizzes", EmptyDict)
        current == Get(s, "current_question", 0)
    IN  IF selected.exc # "none"
        THEN Handled(s, Escaped("answer", selected.exc), <<>>)
        ELSE IF "questions" \notin quizzes.keys
        THEN Handled(s, Escaped("answer", "KeyError"), <<>>)
        ELSE IF current >= Len(quizzes.questions)
        THEN Handled(s, [Escaped("answer", "IndexError") EXCEPT !.indexed = {current}],
                     <<>>)
        ELSE LET correct == selected.val = quizzes.questions[current + 1].index.val
                 s1 == IF correct THEN Put(s, "score", Get(s, "score", 0) + 1) ELSE s
             IN  Handled(Put(s1, "current_question", current + 1),
                         [Redirect("answer", "quiz") EXCEPT !.indexed = {current}],
                         <<>>)

\* lines 126-140
answer(s, field) ==
    LET selected == selected_option(field)
        quizzes == Get(s, "quizzes", EmptyDict)
        current == Get(s, "current_question", 0)
    IN  IF selected.exc # "none"                          \* line 129
        THEN Handled(s, Escaped("answer", selected.exc), <<>>)
        ELSE IF "questions" \notin quizzes.keys           \* quizzes['questions']
        THEN Handled(s, Escaped("answer", "KeyError"), <<>>)
        ELSE LET inRange == current < Len(quizzes.questions)
                 correct == /\ inRange
                            /\ selected.val = quizzes.questions[current + 1].index.val
                 s1 == IF correct THEN Put(s, "score", Get(s, "score", 0) + 1) ELSE s
             IN  Handled(Put(s1, "current_question", current + 1),
                         [Redirect("answer", "quiz") EXCEPT
                            !.indexed = IF inRange THEN {current} ELSE {}],
                         <<>>)

\* the mutant of result that takes len(session['quizzes']) as the total
result_LenOfDict(s) ==
    Handled(s,
      [Response("result", "render", "result.html") EXCEPT
         !.score = Get(s, "score", 0),
         !.total = Cardinality(Get(s, "quizzes", EmptyDict).keys),
         !.category = Get(s, "category", DefaultCategory)],
      <<>>)

\* lines 142-148
result(s) ==
    Handled(s,
      [Response("result", "render", "result.html") EXCEPT
         !.score = Get(s, "score", 0),
         !.total = Get(s, "total_questions", 0),
         !.category = Get(s, "category", DefaultCategory)],
      <<>>)

\* -------------------------------------------------------------------- state
VARIABLES
    session,     \* the Flask session of the one client
    response,    \* what the last handler answered
    outbox,      \* the requests the last handler sent to the API
    submitted,   \* scoring specification: the options answered since the last start
    gen          \* generator specification: one call of generate_quizzes

vars == <<session, response, outbox, submitted, gen>>

\* ------------------------------------------------------------------- inputs
\* all sequences over S of a length in lo..hi
SeqsOf(S, lo, hi) == UNION {[1..n -> S] : n \in lo..hi}

\* the questions of the scenario: correct indices 1, 0, 2, 3, 1
ScenarioQuestions == <<Q(1), Q(0), Q(2), Q(3), Q(1)>>

\* five questions of which one carries true as its index
BoolQuestions == <<Q(0), QBool(TRUE), Q(2), Q(3), Q(1)>>

\* n questions whose correct indices cycle through 0..3 from off + 1
Cycle(n, off) == [i \in 1..n |-> Q((i + off) % NumOptions)]

\* the list with its first element replaced by one that has three options
OneBad(questions) ==
    IF questions = <<>> THEN questions
    ELSE [questions EXCEPT ![1] = QOptions(NumOptions - 1, 0)]

\* the `questions` lists of the responses to /start
StartLists ==
    LET cycles == {Cycle(n, off) : n \in (DefaultCount - 1)..SessMaxLen,
                                   off \in 0..(NumOptions - 1)}
    IN  cycles \cup {OneBad(q) : q \in cycles}
               \cup {ScenarioQuestions, BoolQuestions}

\* outcomes of the API call made for /start
StartOutcomes ==
    {ApiRaises, ApiGarbage, ApiJsonNoKey} \cup {ApiJson(q) : q \in StartLists}

\* outcomes of the API call in the scoring specification
ScoreOutcomes == {ApiGarbage, ApiJson(ScenarioQuestions)}

\* the category field of the /start form
CategoryFields == {NoField, TextField("history")}

\* the option field of the /answer form
OptionFields ==
    {NoField, TextField("abc")} \cup {NumberField(n) : n \in -1..NumOptions}

\* the option field in the scoring specification
ScoreFields == {NumberField(n) : n \in 0..(NumOptions - 1)}

\* elements of the responses in the generator specification
GenPool ==
    {Q(0), Q(3), Q(NumOptions), Q(-1), QBool(TRUE), QFloat(1), QOptions(3, 0),
     QOptionsText(0), QMissing("question", 0), QIndexText, QIndexNull,
     ENumber, ENull, EText({}), EText(QuizKeys)}

\* outcomes of the API call in the generator specification
GenOutcomes ==
    {ApiRaises, ApiGarbage, ApiNoContent, ApiJsonNoKey,
     ApiJsonTop("list"), ApiJsonTop("NoneType"),
     ApiJsonQuestionsOf("str"), ApiJsonQuestionsOf("dict"),
     ApiJsonQuestionsOf("NoneType")}
    \cup {ApiJson(q) : q \in SeqsOf(GenPool, 0, GenMaxLen)}

\* ------------------------------------------------------------ session views
Stored == "quizzes" \in session.keys
CurrentIndex == Get(session, "current_question", 0)
Score == Get(session, "score", 0)
Questions == Get(session, "quizzes", EmptyDict).questions
Size == Len(Questions)
IsComplete == CurrentIndex >= Size

\* ------------------------------------------------- the session specification
GenIdle ==
    [pc |-> "idle", category |-> "", count |-> 0, outcome |-> ApiRaises,
     value |-> None, sent |-> <<>>]

Init ==
    /\ session = EmptySession
    /\ response = NoResponse
    /\ outbox = <<>>
    /\ submitted = <<>>
    /\ gen = GenIdle

Handle(r) ==
    /\ session' = r.session
    /\ response' = r.response
    /\ outbox' = r.sent

Index ==
    /\ Handle(index(session))
    /\ UNCHANGED <<submitted, gen>>

Start ==
    /\ \E field \in CategoryFields, outcome \in StartOutcomes :
          Handle(start(session, field, outcome))
    /\ UNCHANGED <<submitted, gen>>

Quiz ==
    /\ Handle(quiz(session))
    /\ UNCHANGED <<submitted, gen>>

Answer ==
    /\ CurrentIndex < Size + MaxStale
    /\ \E field \in OptionFields : Handle(answer(session, field))
    /\ UNCHANGED <<submitted, gen>>

Result ==
    /\ Handle(result(session))
    /\ UNCHANGED <<submitted, gen>>

Next == Index \/ Start \/ Quiz \/ Answer \/ Result

Spec == Init /\ [][Next]_vars

\* ------------------------------------------------- the scoring specification
\* The session handlers with the answered options recorded since the last
\* successful start.
StartScored ==
    /\ \E outcome \in ScoreOutcomes :
          LET r == start(session, NoField, outcome) IN
          /\ Handle(r)
          /\ submitted' = IF r.response.target = "quiz" THEN <<>> ELSE submitted
    /\ UNCHANGED gen

AnswerScored ==
    /\ CurrentIndex < Size + MaxStale
    /\ \E field \in ScoreFields :
          LET r == answer(session, field) IN
          /\ Handle(r)
          /\ submitted' = IF r.response.kind = "error" THEN submitted
                          ELSE Append(submitted, selected_option(field).val)
    /\ UNCHANGED gen

NextScore == StartScored \/ AnswerScored \/ Quiz \/ Result

SpecScore == Init /\ [][NextScore]_vars

\* ----------------------------------------------- the generator specification
\* One call generate_quizzes(category, count) for every outcome of the API
\* call.
InitGen ==
    /\ session = EmptySession
    /\ response = NoResponse
    /\ outbox = <<>>
    /\ submitted = <<>>
    /\ \E count \in 1..MaxCount, outcome \in GenOutcomes :
          gen = [pc |-> "call", category |-> DefaultCategory, count |-> count,
                 outcome |-> outcome, value |-> None, sent |-> <<>>]

Generate ==
    /\ gen.pc = "call"
    /\ LET r == generate_quizzes(gen.category, gen.count, gen.outcome) IN
       gen' = [gen EXCEPT !.pc = "returned", !.value = r.value, !.sent = r.sent]
    /\ UNCHANGED <<session, response, outbox, submitted>>

NextGen == Generate

SpecGen == InitGen /\ [][NextGen]_vars

\* ------------------------------------------------------------------ claims
\* the last step ran /answer on a session that holds a quiz set, with an
\* option field that int() accepts (or no option field)
Answered ==
    /\ Stored
    /\ response'.handler = "answer"
    /\ response'.target # "ValueError"

\* the last step stored a new quiz set
StartedQuiz == response'.handler = "start" /\ response'.target = "quiz"

\* C1 as stated: in every reachable state 0 <= score <= currentIndex <= size.
C1_ScoreBound ==
    /\ 0 <= Score
    /\ Score <= CurrentIndex
    /\ CurrentIndex <= Size

\* C1 as amended: in every reachable state 0 <= score <= currentIndex and
\* score <= size; currentIndex itself is not bounded by size.
C1_ScoreBoundAmended ==
    /\ 0 <= Score
    /\ Score <= CurrentIndex
    /\ Score <= Size

\* a complete quiz with every answer right, then one more answer
C1_Witness ==
    /\ Stored
    /\ response.handler = "answer"
    /\ CurrentIndex = Size + 1
    /\ Score = Size

\* C2: every answer submitted to a session that holds a quiz set moves
\* currentIndex up by exactly 1, right or wrong; and unless a quiz is started,
\* no step moves currentIndex down or up by more than 1.
C2_MonotonicAdvance ==
    [][/\ Answered => CurrentIndex' = CurrentIndex + 1
       /\ ~ StartedQuiz => CurrentIndex' \in {CurrentIndex, CurrentIndex + 1}]_vars

\* three answers, of which one was right
C2_Witness ==
    /\ Stored
    /\ response.handler = "answer"
    /\ response.kind = "redirect"
    /\ CurrentIndex = 3
    /\ Score = 1

\* C3: /quiz redirects to the result view exactly when currentIndex >= size,
\* and a complete session stays complete until a quiz is started.
C3_CompletionDeterminism ==
    /\ [](response.handler = "quiz" =>
            ((response.kind = "redirect" /\ response.target = "result")
               <=> IsComplete))
    /\ [][IsComplete /\ ~ StartedQuiz => IsComplete']_vars

\* /quiz on a session that was answered past its end
C3_Witness ==
    /\ Stored
    /\ response.handler = "quiz"
    /\ response.kind = "redirect"
    /\ response.target = "result"
    /\ CurrentIndex > Size

\* the number of positions at which the submitted option is the correct index
Matches(options, questions) ==
    LET n == IF Len(options) < Len(questions) THEN Len(options) ELSE Len(questions)
    IN  Cardinality({i \in 1..n : options[i] = questions[i].index.val})

\* C4: an answer adds 1 to score when currentIndex < size and the option is
\* the correct index of the current question, and nothing otherwise; so score
\* is the number of matching positions, total is size, and the session is
\* complete exactly from the size-th answer on.
C4_Scoring ==
    /\ [](Stored =>
            /\ Score = Matches(submitted, Questions)
            /\ Get(session, "total_questions", 0) = Size
            /\ (response.handler = "result" => response.total = Size
                                              /\ response.score = Score)
            /\ (IsComplete <=> Len(submitted) >= Size))
    /\ [][Answered =>
            Score' = Score +
               (IF /\ CurrentIndex < Size
                   /\ submitted'[Len(submitted')] = Questions[CurrentIndex + 1].index.val
                THEN 1 ELSE 0)]_vars

\* the scenario: correct indices 1,0,2,3,1 answered 1,0,0,3,1 give 4 of 5
C4_Witness ==
    /\ Questions = ScenarioQuestions
    /\ submitted = <<1, 0, 0, 3, 1>>
    /\ response.handler = "result"
    /\ response.score = 4
    /\ response.total = 5
    /\ IsComplete

\* the call of generate_quizzes has returned (or let an exception escape)
Returned == gen.pc = "returned"

\* the response of the call is {"questions": [...]}
HasQuestionList ==
    /\ gen.outcome.kind = "json"
    /\ gen.outcome.top = "dict"
    /\ gen.outcome.hasQuestions
    /\ gen.outcome.qtype = "list"

\* the per-element shape of the schema: an object with the three keys, a
\* list of exactly 4 options and an integer index in 0..3
MeetsShape(element) ==
    /\ element.type = "dict"
    /\ QuizKeys \subseteq element.has
    /\ element.options = PyList(NumOptions)
    /\ element.index.type = "int"
    /\ element.index.val \in 0..(NumOptions - 1)

\* the elements of the list that meet the shape, in their order
ShapedElements(questions) == SelectSeq(questions, MeetsShape)

\* the elements of the response of the call that meet the shape
GenShaped ==
    IF HasQuestionList THEN ShapedElements(gen.outcome.questions) ELSE <<>>

\* C5: when fewer than count elements of the response meet the per-element
\* shape, generate returns the failure value and no quiz set.
C5_SchemaRejection ==
    Returned /\ Len(GenShaped) < gen.count => gen.value = None

\* C6: when at least count elements of the response meet the shape, generate
\* returns the quiz set of exactly those elements, in their order.
C6_ExactValidSubset ==
    Returned /\ HasQuestionList /\ Len(GenShaped) >= gen.count =>
        gen.value = PyDict(GenShaped)

\* the call fails before the elements are looked at: the API call raises, the
\* text is not JSON, or checks 1 and 2 of the schema fail
FailsEarly ==
    \/ gen.outcome.kind \in {"raise", "garbage", "nocontent"}
    \/ ~ HasQuestionList
    \/ Len(gen.outcome.questions) < gen.count

\* the cause of a failure as the schema names it
FailureKind(outcome, count) ==
    CASE outcome.kind = "raise" -> "ServiceError"
      [] outcome.kind \in {"garbage", "nocontent"} -> "ParseError"
      [] outcome.top # "dict" \/ ~ outcome.hasQuestions \/ outcome.qtype # "list"
           -> "SchemaError"
      [] Len(ShapedElements(outcome.questions)) < count -> "SchemaError"
      [] OTHER -> "none"

C8_NoCrash ==
    Returned => ~ IsRaised(gen.value) /\ gen.value.type \in {"dict", "NoneType"}

\* an element that is a number makes line 61 raise TypeError; None comes back
C8_Witness ==
    /\ Returned
    /\ HasQuestionList
    /\ \E i \in 1..Len(gen.outcome.questions) :
          /\ gen.outcome.questions[i] = ENumber
          /\ \A j \in 1..(i - 1) : quiz_check(gen.outcome.questions[j]) # "TypeError"
    /\ Len(gen.outcome.questions) >= gen.count
    /\ gen.value = None

\* C9: /start sends exactly one request to the API, also when generation
\* fails and it redirects to the start view; no other handler sends any.
C9_SingleAttempt ==
    /\ response.handler = "start" =>
          /\ Len(outbox) = 1
          /\ response.kind = "redirect"
          /\ response.target \in {"index", "quiz"}
    /\ response.handler # "start" => outbox = <<>>

\* a failed start: back to the start view after one request
C9_Witness ==
    /\ response.handler = "start"
    /\ response.target = "index"
    /\ Len(outbox) = 1

\* C10: an answer submitted when currentIndex >= size reads no element of
\* questions, leaves score alone, raises nothing and adds 1 to currentIndex.
C10_StaleSubmission ==
    [][Answered /\ CurrentIndex >= Size =>
         /\ response'.indexed = {}
         /\ response'.kind = "redirect"
         /\ Score' = Score
         /\ CurrentIndex' = CurrentIndex + 1]_vars

\* the second answer after the end of the quiz
C10_Witness ==
    /\ Stored
    /\ response.handler = "answer"
    /\ response.kind = "redirect"
    /\ response.indexed = {}
    /\ CurrentIndex = Size + 2

\* C11: right after every successful start, whatever the session held,
\* currentIndex = 0, score = 0, the session holds the quiz set that was just
\* generated, and it is not complete. Stated of /start run on every reachable
\* session with every form and every outcome of the API call, and of the
\* state a successful start leaves.
C11_InitialState ==
    /\ \A field \in CategoryFields, outcome \in StartOutcomes :
          LET r == start(session, field, outcome)
              generated == generate_quizzes(form_category(field), DefaultCount,
                                            outcome).value
          IN  r.response.target = "quiz" =>
                 /\ "quizzes" \in r.session.keys
                 /\ r.session.quizzes = generated
                 /\ Get(r.session, "current_question", -1) = 0
                 /\ Get(r.session, "score", -1) = 0
                 /\ 0 < Len(r.session.quizzes.questions)
    /\ response.handler = "start" /\ response.target = "quiz" =>
          Stored /\ CurrentIndex = 0 /\ Score = 0 /\ ~ IsComplete

\* the scenario quiz has just been started
C11_Witness ==
    /\ response.handler = "start"
    /\ response.target = "quiz"
    /\ Questions = ScenarioQuestions
    /\ CurrentIndex = 0
    /\ Score = 0

\* the last step ran /quiz, /answer or /result
ReadOrAnswer == response'.handler \in {"quiz", "answer", "result"}

C13_PerElementNotFatal ==
    /\ Returned
    /\ HasQuestionList
    /\ Len(gen.outcome.questions) >= gen.count
    /\ Len(GenShaped) >= gen.count
    => gen.value.type = "dict"

\* C14: /quiz and /result change nothing in the session, in every state, and
\* /quiz shows the question at currentIndex whenever currentIndex < size.
C14_PureReads ==
    /\ [][response'.handler \in {"quiz", "result"} => session' = session]_vars
    /\ [](response.handler = "quiz" /\ CurrentIndex < Size =>
            /\ response.kind = "render"
            /\ response.question = Questions[CurrentIndex + 1]
            /\ response.question_number = CurrentIndex + 1
            /\ response.indexed = {CurrentIndex})

\* /quiz shows the third question of a running quiz
C14_Witness ==
    /\ Stored
    /\ response.handler = "quiz"
    /\ response.kind = "render"
    /\ CurrentIndex = 2
    /\ response.question = Questions[3]

\* C15: in every reachable state, a session without a quiz set included,
\* /quiz, /answer and /result complete without raising an error.
C15_NoSessionErrors ==
    response.handler \in {"quiz", "answer", "result"} => response.kind # "error"

\* the last step ran /start and generation failed
StartFailed == response'.handler = "start" /\ response'.target = "index"

\* C16: a start whose generation fails leaves quiz set, currentIndex, score,
\* category and total as they were.
C16_FailedStartUntouched ==
    [][StartFailed => session' = session]_vars

\* a failed start in the middle of a quiz: third question, one right so far
C16_Witness ==
    /\ Stored
    /\ response.handler = "start"
    /\ response.target = "index"
    /\ CurrentIndex = 2
    /\ Score = 1

\* C17: score never exceeds the number of questions, also after answers
\* submitted past the end, so the result view never shows score > total.
C17_ScoreAtMostTotal ==
    /\ Score <= Size
    /\ Score <= Get(session, "total_questions", 0)
    /\ response.handler = "result" => response.score <= response.total

\* the result view after a quiz answered all right and then answered again
C17_Witness ==
    /\ Stored
    /\ response.handler = "result"
    /\ response.score = response.total
    /\ CurrentIndex > Size

\* C18: an element whose correct_answer_index is not an integer (true, a
\* float, a text, null) is never part of a returned quiz set.
C18_IntegerIndexOnly ==
    Returned /\ gen.value.type = "dict" =>
        \A i \in 1..Len(gen.value.questions) :
            gen.value.questions[i].index.type = "int"

====
